---- MODULE Spec2Model ----
(***************************************************************************)
(* GrTextureAdjuster (src/gpu/GrTextureAdjuster.cpp): selection of the     *)
(* texture proxy a draw samples from.  onRefTextureProxyForParams decides  *)
(* whether the original proxy can be used or a copy is needed, and         *)
(* refTextureProxyCopy finds or makes that copy and registers it in the    *)
(* proxy provider under a unique key.                                      *)
(*                                                                         *)
(* A recording is one thread that records draws; for each draw it builds   *)
(* an adjuster (context, original proxy, unique id) and calls              *)
(* onRefTextureProxyForParams on it.  All recordings use one proxy         *)
(* provider.  The steps of a call that touch the provider (lookup, copy,   *)
(* key removal, key assignment) are separate atomic actions, in the order  *)
(* of the code; everything local to the call is folded into the step that  *)
(* precedes it.                                                            *)
(*                                                                         *)
(* Proxies are reference counted: a proxy lives while the content provider *)
(* (originals), the cache (proxies that carry a key) or a call in progress *)
(* holds it.  A call records what it did (hist), so that its effect can be *)
(* stated when it is done; a recording may repeat the call it has just     *)
(* finished, and the repeated call knows the outcome of the one before.    *)
(*                                                                         *)
(* createFragmentProcessor asks for the proxy in the same way, scales the  *)
(* texture matrix if it got a copy, and then has DetermineDomainMode       *)
(* compute the domain, a second time with kBilerp if the first answer is   *)
(* kTightCopy.  Its call of the selection runs through the same steps; the *)
(* rest of it is one step.                                                 *)
(*                                                                         *)
(* GrProxyProvider, CopyOnGpu, the IsACopyNeeded checks of GrGpu, the key  *)
(* functions and DetermineDomainMode are not part of this file of the      *)
(* repository; they are modelled from their interface.                     *)
(***************************************************************************)
EXTENDS Integers, Sequences, FiniteSets, TLC

\* ------------------------------------------------------------------ bounds
NumRecordings == 2       \* recordings (threads) that may issue calls
MaxCopies == 3           \* copies that fit in memory at the same time

Recordings == 1..NumRecordings
Null == 0                \* the null sk_sp<GrTextureProxy>

\* ------------------------------------------------------- values of the code
Filters == {"kNearest", "kBilerp", "kMipMap"}
SamplerStates == [isRepeated : BOOLEAN, filter : Filters]

\* CopyParams as declared but not yet written by an analyzer.
NoCopyParams == [fFilter |-> "none", fWidth |-> 0, fHeight |-> 0]

\* A default-constructed GrUniqueKey: not valid.
InvalidKey == [valid |-> FALSE, imageID |-> 0, width |-> 0, height |-> 0,
               copyParams |-> NoCopyParams]

\* The original textures the content provider hands out: a 100x100 texture
\* without mip levels and a 128x128 texture with them.
Originals == << [live |-> TRUE, mipMapped |-> FALSE, uniqueKey |-> InvalidKey,
                 width |-> 100, height |-> 100],
                [live |-> TRUE, mipMapped |-> TRUE, uniqueKey |-> InvalidKey,
                 width |-> 128, height |-> 128] >>

NumOriginals == Len(Originals)

\* The proxies there is room for, and a slot that holds none.
ProxyIds == 1..(NumOriginals + MaxCopies)

NoProxy == [live |-> FALSE, mipMapped |-> FALSE, uniqueKey |-> InvalidKey,
            width |-> 0, height |-> 0]

\* Device capabilities.
NpotTextureTileSupport == FALSE
MipMapSupport == TRUE

VARIABLES
    proxies,        \* the texture proxies: id -> [live, mipMapped, uniqueKey, width, height]
    recordingDDL,   \* GrProxyProvider::recordingDDL()
    pc,             \* per recording: position in the call
    adj,            \* per recording: the adjuster of the call (fContext, fOriginal, fUniqueID)
    loc,            \* per recording: arguments and locals of the call
    hist,           \* per recording: what the call has done so far
    fp              \* per recording: the frame of createFragmentProcessor

vars == <<proxies, recordingDDL, pc, adj, loc, hist, fp>>

\* ------------------------------------------------------------ key builder
IsPow2(n) == n \in {1, 2, 4, 8, 16, 32, 64, 128, 256}

GrNextPow2(n) == CHOOSE p \in {1, 2, 4, 8, 16, 32, 64, 128, 256} :
                    /\ p >= n
                    /\ \A q \in {1, 2, 4, 8, 16, 32, 64, 128, 256} : q >= n => p <= q

\* GrMakeKeyFromImageID: the key of an image id and its bounds.
GrMakeKeyFromImageID(imageID, w, h) ==
    IF imageID # 0 /\ w > 0 /\ h > 0
    THEN [valid |-> TRUE, imageID |-> imageID, width |-> w, height |-> h,
          copyParams |-> NoCopyParams]
    ELSE InvalidKey

\* MakeCopyKeyFromOrigKey: extends a valid base key by the copy parameters.
MakeCopyKeyFromOrigKey(baseKey, params) ==
    IF baseKey.valid THEN [baseKey EXCEPT !.copyParams = params] ELSE InvalidKey

\* Mutant: the copy parameters are left out of the key.
makeCopyKey_WithoutParams(a, params) ==
    GrMakeKeyFromImageID(a.fUniqueID, proxies[a.fOriginal].width,
                         proxies[a.fOriginal].height)

\* GrTextureAdjuster::makeCopyKey
makeCopyKey(a, params) ==
    MakeCopyKeyFromOrigKey(
        GrMakeKeyFromImageID(a.fUniqueID, proxies[a.fOriginal].width,
                             proxies[a.fOriginal].height),
        params)

\* ------------------------------------------------------------ proxy provider
\* The proxies that answer a key.
ProxiesWithKey(ps, key) == {p \in ProxyIds : ps[p].live /\ ps[p].uniqueKey = key}

\* findOrCreateProxyByUniqueKey: a proxy carrying the key, or null.
FindProxyByUniqueKey(ps, key) ==
    IF ProxiesWithKey(ps, key) = {} THEN {Null} ELSE ProxiesWithKey(ps, key)

\* removeUniqueKeyFromProxy(key, proxy)
RemoveUniqueKeyFromProxy(ps, key, p) ==
    IF ps[p].uniqueKey = key THEN [ps EXCEPT ![p].uniqueKey = InvalidKey] ELSE ps

\* assignUniqueKeyToProxy(key, proxy)
AssignUniqueKeyToProxy(ps, key, p) == [ps EXCEPT ![p].uniqueKey = key]

\* ------------------------------------------------------------ copy analysis
\* GrGpu::IsACopyNeededForRepeatWrapMode: its answer
RepeatCopyNeeded(p) ==
    /\ ~NpotTextureTileSupport
    /\ ~IsPow2(p.width) \/ ~IsPow2(p.height)

\* ... and the copy parameters it writes.
RepeatCopyParams(p, filter) ==
    [fFilter |-> IF filter = "kNearest" THEN "kNearest" ELSE "kBilerp",
     fWidth |-> GrNextPow2(p.width), fHeight |-> GrNextPow2(p.height)]

\* GrGpu::IsACopyNeededForMips: its answer
MipCopyNeeded(p, filter) ==
    filter = "kMipMap" /\ MipMapSupport /\ ~p.mipMapped

\* ... and the copy parameters it writes.
MipCopyParams(p) ==
    [fFilter |-> "kNearest", fWidth |-> p.width, fHeight |-> p.height]

\* The copy CopyOnGpu makes on success.
CopiedProxy(params, willBeMipped) ==
    [live |-> TRUE, mipMapped |-> willBeMipped, uniqueKey |-> InvalidKey,
     width |-> params.fWidth, height |-> params.fHeight]

\* ------------------------------------------------------------ references
\* A proxy lives as long as someone holds a reference to it: the content
\* provider holds the originals, the cache the proxies that carry a key, a
\* call the proxies its locals and its result point to.
FreeIds(ps) == {p \in ProxyIds : ~ps[p].live}

Released(ps, held) ==
    [p \in ProxyIds |->
        IF p <= NumOriginals \/ ps[p].uniqueKey.valid \/ p \in held
        THEN ps[p] ELSE NoProxy]


\* ------------------------------------------------------------ the adjuster
\* The adjusters a recording can build: a context (live, or null once
\* abandoned), an original proxy and the unique id of its content.
\* The id is the one of the original's content (its index here), or 0.
Adjusters == {a \in [fContext : BOOLEAN, fOriginal : 1..NumOriginals,
                     fUniqueID : 0..NumOriginals] : a.fUniqueID \in {0, a.fOriginal}}

NoAdjuster == [fContext |-> FALSE, fOriginal |-> 1, fUniqueID |-> 0]

NoLocals == [params |-> [isRepeated |-> FALSE, filter |-> "kNearest"],
             willBeMipped |-> FALSE, copyParams |-> NoCopyParams,
             needsCopyForMipsOnly |-> FALSE, key |-> InvalidKey,
             cachedCopy |-> Null, copy |-> Null, result |-> Null, ret |-> Null]

\* What a call remembers of the call with the same arguments that the same
\* recording made right before it, if there was one.
NoFirst == [valid |-> FALSE, entered |-> FALSE, keyValid |-> FALSE, copies |-> 0,
            result |-> Null]

NoHistory == [entered |-> FALSE, lookups |-> 0, copies |-> 0, removes |-> 0,
              assigns |-> 0, notifies |-> 0, pre |-> << >>, first |-> NoFirst]

\* Mutant: the check of fContext is missing.
IsAbandoned_Never(a) == FALSE

\* if (!fContext): the texture was abandoned
IsAbandoned(a) == ~a.fContext

\* The negation of the condition of the if: repeat wrap mode demands a copy.
NeedsCopyForRepeat(orig, params) ==
    params.isRepeated /\ RepeatCopyNeeded(orig)

\* needsCopyForMipsOnly after the if
NeedsCopyForMipsOnly(orig, params) ==
    ~NeedsCopyForRepeat(orig, params) /\ MipCopyNeeded(orig, params.filter)

\* copyParams after the if
AnalyzedCopyParams(orig, params) ==
    IF NeedsCopyForRepeat(orig, params) THEN RepeatCopyParams(orig, params.filter)
    ELSE IF MipCopyNeeded(orig, params.filter) THEN MipCopyParams(orig)
    ELSE NoCopyParams

\* Mutant: the answer of the repeat-wrap check is dropped; any repeated
\* sampler goes on to the copy.
ReturnsOriginal_UnlessRepeated(orig, params) ==
    ~params.isRepeated /\ ~MipCopyNeeded(orig, params.filter)

\* if (!needsCopyForMipsOnly) return proxy;
ReturnsOriginal(orig, params) ==
    ~NeedsCopyForRepeat(orig, params) /\ ~NeedsCopyForMipsOnly(orig, params)

\* Mutant: no fallback to the original.
SelectResult_NoFallback(result, needsCopyForMipsOnly, original) == result

\* Mutant: the fallback does not ask why the copy was needed.
SelectResult_AlwaysFallback(result, needsCopyForMipsOnly, original) ==
    IF result = Null THEN original ELSE result

\* What onRefTextureProxyForParams returns once refTextureProxyCopy gave result.
SelectResult(result, needsCopyForMipsOnly, original) ==
    IF result = Null /\ needsCopyForMipsOnly THEN original ELSE result

\* Mutant: any cached copy is a hit, mips or not.
CacheHitSatisfies_AnyCopy(ps, cachedCopy, willBeMipped) == cachedCopy # Null

\* Mutant: only a cached copy with mips is a hit.
CacheHitSatisfies_MippedOnly(ps, cachedCopy, willBeMipped) ==
    cachedCopy # Null /\ ps[cachedCopy].mipMapped

\* Mutant: a cached copy is a hit only if no mips are wanted.
CacheHitSatisfies_UnlessMipsWanted(ps, cachedCopy, willBeMipped) ==
    cachedCopy # Null /\ ~willBeMipped

\* Mutant: a cached copy is a hit only if it has mips exactly when they are
\* wanted.
CacheHitSatisfies_ExactMatch(ps, cachedCopy, willBeMipped) ==
    cachedCopy # Null /\ (ps[cachedCopy].mipMapped <=> willBeMipped)

\* cachedCopy && (!willBeMipped || GrMipMapped::kYes == cachedCopy->mipMapped())
CacheHitSatisfies(ps, cachedCopy, willBeMipped) ==
    cachedCopy # Null /\ (~willBeMipped \/ ps[cachedCopy].mipMapped)

\* if (key.isValid()) around the lookup
LooksUpCache(key) == key.valid

\* Mutant: the copy is registered whatever the key.
RegistersCopy_Always(key) == TRUE

\* if (key.isValid()) around the registration of a copy
RegistersCopy(key) == key.valid

\* Mutant: the key stays on the cached copy.
MustRemoveKey_Never(cachedCopy) == FALSE

\* if (cachedCopy): the key must come off the proxy that carries it
MustRemoveKey(cachedCopy) == cachedCopy # Null

\* Mutant: didCacheCopy is called also while a DDL is recorded.
NotifiesCacheCopy_Always(recording) == TRUE

\* if (!proxyProvider->recordingDDL())
NotifiesCacheCopy(recording) == ~recording

\* The end of refTextureProxyCopy and of its caller: result is returned.
Returned(l, a, result) ==
    [l EXCEPT !.result = result,
              !.ret = SelectResult(result, l.needsCopyForMipsOnly, a.fOriginal)]

\* ------------------------------------------------- createFragmentProcessor
\* Coordinates are counted in quarters of a texel.
TexelUnits == 4

\* filterOrNullForBicubic: a filter, or null for bicubic sampling.
NullFilter == "nullptr"
FiltersOrNull == Filters \cup {NullFilter}

DomainModes == {"kNoDomain", "kDomain", "kTightCopy"}

MakeRect(l, t, r, b) == [fLeft |-> l, fTop |-> t, fRight |-> r, fBottom |-> b]

MakeWH(w, h) == MakeRect(0, 0, w * TexelUnits, h * TexelUnits)

\* The constraint rectangles a caller passes for a texture like p: all of it,
\* a quarter of it that touches the left and top edge, and a rectangle inside
\* it that is half a texel wide and high.
ConstraintRects(p) ==
    {MakeWH(p.width, p.height),
     MakeWH(p.width \div 2, p.height \div 2),
     MakeRect(10 * TexelUnits, 10 * TexelUnits,
              10 * TexelUnits + TexelUnits \div 2, 10 * TexelUnits + TexelUnits \div 2)}

\* What an SkRect that was never written may hold.
UninitializedRects == {MakeRect(0, 0, 0, 0), MakeRect(TexelUnits, TexelUnits, 0, 0)}

\* The rectangle recorded for a domain that is neither written nor read.
UnreadRect == MakeRect(0, 0, 0, 0)

Contains(outer, inner) ==
    /\ outer.fLeft <= inner.fLeft /\ outer.fTop <= inner.fTop
    /\ inner.fRight <= outer.fRight /\ inner.fBottom <= outer.fBottom

TouchesEdge(rect, p) ==
    \/ rect.fLeft = 0 \/ rect.fTop = 0
    \/ rect.fRight = p.width * TexelUnits \/ rect.fBottom = p.height * TexelUnits

IsSorted(rect) == rect.fLeft <= rect.fRight /\ rect.fTop <= rect.fBottom

\* The distance the solver moves the sides of the constraint rectangle
\* inwards: half a texel for bilinear sampling, the support radius of the
\* kernel (a texel and a half) for bicubic sampling.
DomainInset(filterOrNull) ==
    IF filterOrNull = NullFilter THEN TexelUnits + TexelUnits \div 2
                                 ELSE TexelUnits \div 2

\* The constraint rectangle moved inwards by d; a pair of sides that would
\* cross is put on the middle between the sides of the constraint rectangle,
\* which keeps the domain sorted.
InsetRect(rect, d) ==
    LET l == rect.fLeft + d
        r == rect.fRight - d
        t == rect.fTop + d
        b == rect.fBottom - d
        mx == (rect.fLeft + rect.fRight) \div 2
        my == (rect.fTop + rect.fBottom) \div 2
    IN  MakeRect(IF l > r THEN mx ELSE l, IF t > b THEN my ELSE t,
                 IF l > r THEN mx ELSE r, IF t > b THEN my ELSE b)

\* GrTextureProducer::DetermineDomainMode: the mode, and the domain if it
\* writes one. A constraint that covers the texture, a constraint that is not
\* strict and nearest sampling need no domain; no domain keeps a MIP-mapped
\* read inside a strict constraint (the only request for a tight copy that
\* createFragmentProcessor expects); bilinear and bicubic reads are clamped
\* to the inset constraint rectangle.
DetermineDomainMode(constraintRect, restrictFilterToRect, coordsLimited, p, filterOrNull) ==
    LET none == [mode |-> "kNoDomain", wrote |-> FALSE, domain |-> UnreadRect]
    IN  IF Contains(constraintRect, MakeWH(p.width, p.height)) THEN none
        ELSE IF ~restrictFilterToRect THEN none
        ELSE IF filterOrNull = "kNearest" THEN none
        ELSE IF filterOrNull = "kMipMap"
        THEN [mode |-> "kTightCopy", wrote |-> FALSE, domain |-> UnreadRect]
        ELSE [mode |-> "kDomain", wrote |-> TRUE,
              domain |-> InsetRect(constraintRect, DomainInset(filterOrNull))]

\* GrTextureProducer::refTextureProxyForParams: the willBeMipped it passes to
\* onRefTextureProxyForParams.
WillBeMipped(samplerState) == samplerState.filter = "kMipMap" /\ MipMapSupport

\* samplerState: default constructed, then given the filter if there is one.
SamplerStateFor(filterOrNull) ==
    [isRepeated |-> FALSE,
     filter |-> IF filterOrNull # NullFilter THEN filterOrNull ELSE "kNearest"]

\* SkScalar scaleAdjust[2] = { 1.0f, 1.0f }, which a copy for a clamped
\* sampler leaves as it is.
ScaleAdjust == <<1, 1>>

\* Mutant: the matrix is scaled whenever the copy path was entered.
PostScales_IfCopyWanted(proxy, original, entered) == entered

\* proxy.get() != this->originalProxy()
PostScales(proxy, original, entered) == proxy # original

\* Mutant: a tight copy is handed on as it is.
NeedsRetry_Never(domainMode) == FALSE

\* kTightCopy_DomainMode == domainMode
NeedsRetry(domainMode) == domainMode = "kTightCopy"

\* Mutant: the retry asks with the MIP-map filter again.
RetryFilter_MipMap == "kMipMap"

\* Mutant: the retry asks with the nearest filter.
RetryFilter_Nearest == "kNearest"

\* static const GrSamplerState::Filter kBilerp
RetryFilter == "kBilerp"

\* SkASSERT(filterOrNullForBicubic && kMipMap == *filterOrNullForBicubic)
TightCopyExpected(filterOrNull) == filterOrNull # NullFilter /\ filterOrNull = "kMipMap"

\* SkASSERT(kTightCopy_DomainMode != domainMode)
RetryResolved(domainMode) == domainMode # "kTightCopy"

\* SkASSERT(kNoDomain_DomainMode == domainMode || (domain sorted))
DomainIsUsable(domainMode, domain) == domainMode = "kNoDomain" \/ IsSorted(domain)

\* Mutant: after a retry the retry's filter is handed on.
FinalFilter_Downgraded(filterOrNull, retried) ==
    IF retried THEN RetryFilter ELSE filterOrNull

\* The filter handed to CreateFragmentProcessorForDomainAndFilter.
FinalFilter(filterOrNull, retried) == filterOrNull

NoOutput == [null |-> TRUE, proxy |-> Null, textureMatrix |-> << >>,
             domainMode |-> "kNoDomain", domain |-> UnreadRect, filter |-> NullFilter]

NoFrame == [active |-> FALSE, filterOrNullForBicubic |-> NullFilter,
            constraintRect |-> UnreadRect, filterConstraint |-> FALSE,
            firstMode |-> "none", retryFilter |-> "none", retryMode |-> "none",
            retryDomain |-> UnreadRect, asserts |-> {}, out |-> NoOutput]

\* ------------------------------------------------------------ the state
Init ==
    /\ proxies = [p \in ProxyIds |-> IF p <= NumOriginals THEN Originals[p] ELSE NoProxy]
    /\ recordingDDL \in BOOLEAN
    /\ pc = [r \in Recordings |-> "idle"]
    /\ adj = [r \in Recordings |-> NoAdjuster]
    /\ loc = [r \in Recordings |-> NoLocals]
    /\ hist = [r \in Recordings |-> NoHistory]
    /\ fp = [r \in Recordings |-> NoFrame]

\* onRefTextureProxyForParams of adjuster a up to the call of
\* refTextureProxyCopy.
OnRefTextureProxyForParams(r, ps, a, params, willBeMipped, first) ==
    LET orig == ps[a.fOriginal]
        l == [NoLocals EXCEPT !.params = params, !.willBeMipped = willBeMipped]
    IN  /\ adj' = [adj EXCEPT ![r] = a]
        /\ hist' = [hist EXCEPT ![r] = [NoHistory EXCEPT !.pre = ps,
                                                         !.first = first]]
        /\ IF IsAbandoned(a)
           THEN /\ loc' = [loc EXCEPT ![r] = l]
                /\ pc' = [pc EXCEPT ![r] = "done"]
           ELSE IF ReturnsOriginal(orig, params)
           THEN /\ loc' = [loc EXCEPT ![r] = [l EXCEPT !.ret = a.fOriginal]]
                /\ pc' = [pc EXCEPT ![r] = "done"]
           ELSE /\ loc' = [loc EXCEPT ![r] =
                        [l EXCEPT !.copyParams = AnalyzedCopyParams(orig, params),
                                  !.needsCopyForMipsOnly =
                                      NeedsCopyForMipsOnly(orig, params)]]
                /\ pc' = [pc EXCEPT ![r] = "lookup"]
        /\ proxies' = ps
        /\ UNCHANGED recordingDDL

\* A recording builds an adjuster and calls it while no other call is in
\* progress.
CallAlone(r) ==
    /\ \A q \in Recordings : pc[q] = "idle"
    /\ \E a \in Adjusters, params \in SamplerStates, willBeMipped \in BOOLEAN :
          OnRefTextureProxyForParams(r, proxies, a, params, willBeMipped, NoFirst)
    /\ UNCHANGED fp

\* The adjusters of concurrent recordings that wrap the same content.
SharedAdjusters == {a \in Adjusters : a.fContext /\ a.fOriginal = 1 /\ a.fUniqueID = 1}

\* Sampler states that make those adjusters ask for the same copy.
SharedSamplerStates == {s \in SamplerStates : s.isRepeated /\ s.filter # "kNearest"}

\* A recording builds an adjuster and calls it, whatever the others do.
CallConcurrently(r) ==
    /\ pc[r] = "idle"
    /\ \E a \in SharedAdjusters, params \in SharedSamplerStates, willBeMipped \in BOOLEAN :
          OnRefTextureProxyForParams(r, proxies, a, params, willBeMipped, NoFirst)
    /\ UNCHANGED fp

\* The proxies the calls of the recordings other than r hold.
HeldByOthers(r) ==
    UNION {{loc[q].cachedCopy, loc[q].copy, loc[q].result, loc[q].ret} :
           q \in Recordings \ {r}}

\* The recording lets go of the result and repeats the call it has just
\* finished, with the same adjuster and the same arguments.
CallAgain(r) ==
    /\ pc[r] = "done" /\ ~fp[r].active
    /\ UNCHANGED fp
    /\ OnRefTextureProxyForParams(r, Released(proxies, HeldByOthers(r)), adj[r],
            loc[r].params, loc[r].willBeMipped,
            [valid |-> TRUE, entered |-> hist[r].entered,
             keyValid |-> loc[r].key.valid, copies |-> hist[r].copies,
             result |-> loc[r].result])

\* refTextureProxyCopy: the key and the cache lookup.
FindCachedCopy(r) ==
    /\ pc[r] = "lookup"
    /\ LET key == makeCopyKey(adj[r], loc[r].copyParams)
       IN  IF LooksUpCache(key)
           THEN \E cachedCopy \in FindProxyByUniqueKey(proxies, key) :
                  /\ hist' = [hist EXCEPT ![r].entered = TRUE, ![r].lookups = @ + 1]
                  /\ IF CacheHitSatisfies(proxies, cachedCopy, loc[r].willBeMipped)
                     THEN /\ loc' = [loc EXCEPT ![r] =
                                  Returned([loc[r] EXCEPT !.key = key,
                                                          !.cachedCopy = cachedCopy],
                                           adj[r], cachedCopy)]
                          /\ pc' = [pc EXCEPT ![r] = "done"]
                     ELSE /\ loc' = [loc EXCEPT ![r].key = key,
                                                ![r].cachedCopy = cachedCopy]
                          /\ pc' = [pc EXCEPT ![r] = "copy"]
           ELSE /\ hist' = [hist EXCEPT ![r].entered = TRUE]
                /\ loc' = [loc EXCEPT ![r].key = key]
                /\ pc' = [pc EXCEPT ![r] = "copy"]
    /\ UNCHANGED <<proxies, recordingDDL, adj, fp>>

\* refTextureProxyCopy: CopyOnGpu makes the copy.
CopyOnGpuSucceeds(r) ==
    /\ pc[r] = "copy"
    /\ FreeIds(proxies) # {}
    /\ LET copy == CHOOSE p \in FreeIds(proxies) : \A q \in FreeIds(proxies) : p <= q
       IN  /\ proxies' = [proxies EXCEPT ![copy] =
                              CopiedProxy(loc[r].copyParams, loc[r].willBeMipped)]
           /\ hist' = [hist EXCEPT ![r].copies = @ + 1]
           /\ IF RegistersCopy(loc[r].key)
              THEN /\ loc' = [loc EXCEPT ![r].copy = copy]
                   /\ pc' = [pc EXCEPT ![r] =
                          IF MustRemoveKey(loc[r].cachedCopy) THEN "remove" ELSE "assign"]
              ELSE /\ loc' = [loc EXCEPT ![r] =
                           Returned([loc[r] EXCEPT !.copy = copy], adj[r], copy)]
                   /\ pc' = [pc EXCEPT ![r] = "done"]
    /\ UNCHANGED <<recordingDDL, adj, fp>>

\* Mutant: the key is taken off the cached copy before the copy is tested.
CopyOnGpuFails_KeyRemoved(r) ==
    /\ pc[r] = "copy"
    /\ proxies' = IF loc[r].cachedCopy # Null
                  THEN RemoveUniqueKeyFromProxy(proxies, loc[r].key, loc[r].cachedCopy)
                  ELSE proxies
    /\ hist' = [hist EXCEPT ![r].copies = @ + 1]
    /\ loc' = [loc EXCEPT ![r] = Returned(loc[r], adj[r], Null)]
    /\ pc' = [pc EXCEPT ![r] = "done"]
    /\ UNCHANGED <<recordingDDL, adj, fp>>

\* refTextureProxyCopy: CopyOnGpu returns null.
CopyOnGpuFails(r) ==
    /\ pc[r] = "copy"
    /\ hist' = [hist EXCEPT ![r].copies = @ + 1]
    /\ loc' = [loc EXCEPT ![r] = Returned(loc[r], adj[r], Null)]
    /\ pc' = [pc EXCEPT ![r] = "done"]
    /\ UNCHANGED <<proxies, recordingDDL, adj, fp>>

\* refTextureProxyCopy: the key is removed from the cached copy without mips.
RemoveKey(r) ==
    /\ pc[r] = "remove"
    /\ proxies' = RemoveUniqueKeyFromProxy(proxies, loc[r].key, loc[r].cachedCopy)
    /\ hist' = [hist EXCEPT ![r].removes = @ + 1]
    /\ pc' = [pc EXCEPT ![r] = "assign"]
    /\ UNCHANGED <<recordingDDL, adj, loc, fp>>

\* refTextureProxyCopy: the key is assigned to the copy, didCacheCopy is
\* called unless a DDL is recorded, and the copy is returned.
AssignKey(r) ==
    /\ pc[r] = "assign"
    /\ proxies' = AssignUniqueKeyToProxy(proxies, loc[r].key, loc[r].copy)
    /\ hist' = [hist EXCEPT ![r].assigns = @ + 1,
                            ![r].notifies = IF NotifiesCacheCopy(recordingDDL)
                                            THEN @ + 1 ELSE @]
    /\ loc' = [loc EXCEPT ![r] = Returned(loc[r], adj[r], loc[r].copy)]
    /\ pc' = [pc EXCEPT ![r] = "done"]
    /\ UNCHANGED <<recordingDDL, adj, fp>>

\* createFragmentProcessor up to the call of refTextureProxyForParams.
CallCreateFragmentProcessor(r) ==
    /\ \A q \in Recordings : pc[q] = "idle"
    /\ \E a \in Adjusters, filterOrNull \in FiltersOrNull :
          /\ fp' = [fp EXCEPT ![r] = [NoFrame EXCEPT !.active = TRUE,
                                          !.filterOrNullForBicubic = filterOrNull]]
          /\ OnRefTextureProxyForParams(r, proxies, a, SamplerStateFor(filterOrNull),
                                        WillBeMipped(SamplerStateFor(filterOrNull)), NoFirst)

\* createFragmentProcessor from the return of refTextureProxyForParams on.
\* constraintRect, filterConstraint and coordsLimitedToConstraintRect are
\* arguments that are first read here, and so are drawn here; the frame keeps
\* the first two. The domain is an uninitialised local until
\* DetermineDomainMode writes it.
CreateFragmentProcessorReturns(r) ==
    /\ pc[r] = "done" /\ fp[r].active
    /\ pc' = [pc EXCEPT ![r] = "returned"]
    /\ IF loc[r].ret = Null
       THEN fp' = fp
       ELSE \E constraintRect \in ConstraintRects(proxies[adj[r].fOriginal]),
               filterConstraint \in BOOLEAN, coordsLimited \in BOOLEAN,
               garbage \in UninitializedRects :
            LET proxy == loc[r].ret
                filterOrNull == fp[r].filterOrNullForBicubic
                textureMatrix ==
                    IF PostScales(proxy, adj[r].fOriginal, hist[r].entered)
                    THEN <<ScaleAdjust>> ELSE << >>
                first == DetermineDomainMode(constraintRect, filterConstraint,
                                             coordsLimited, proxies[proxy], filterOrNull)
                retried == NeedsRetry(first.mode)
                retry == DetermineDomainMode(constraintRect, filterConstraint,
                                             coordsLimited, proxies[proxy], RetryFilter)
                domainMode == IF retried THEN retry.mode ELSE first.mode
                domain == IF retried /\ retry.wrote THEN retry.domain
                          ELSE IF first.wrote THEN first.domain
                          ELSE IF domainMode = "kNoDomain" THEN UnreadRect
                          ELSE garbage
                asserts ==
                    {"kMipMap == *filterOrNullForBicubic" :
                        x \in {y \in {1} : retried /\ ~TightCopyExpected(filterOrNull)}}
                    \cup {"kTightCopy_DomainMode != domainMode" :
                        x \in {y \in {1} : retried /\ ~RetryResolved(retry.mode)}}
                    \cup {"kNoDomain_DomainMode == domainMode || domain sorted" :
                        x \in {y \in {1} : ~DomainIsUsable(domainMode, domain)}}
            IN  fp' = [fp EXCEPT ![r] =
                    [@ EXCEPT !.constraintRect = constraintRect,
                              !.filterConstraint = filterConstraint,
                              !.firstMode = first.mode,
                              !.retryFilter = IF retried THEN RetryFilter ELSE "none",
                              !.retryMode = IF retried THEN retry.mode ELSE "none",
                              !.retryDomain = IF retried /\ retry.wrote
                                              THEN retry.domain ELSE UnreadRect,
                              !.asserts = asserts,
                              !.out = [null |-> FALSE, proxy |-> proxy,
                                       textureMatrix |-> textureMatrix,
                                       domainMode |-> domainMode, domain |-> domain,
                                       filter |-> FinalFilter(filterOrNull, retried)]]]
    /\ UNCHANGED <<proxies, recordingDDL, adj, loc, hist>>

\* The caller is through with the result; the adjuster, the locals and the
\* references they held go away.
Finish(r) ==
    /\ pc[r] = "returned" \/ (pc[r] = "done" /\ ~fp[r].active)
    /\ fp' = [fp EXCEPT ![r] = NoFrame]
    /\ pc' = [pc EXCEPT ![r] = "idle"]
    /\ adj' = [adj EXCEPT ![r] = NoAdjuster]
    /\ loc' = [loc EXCEPT ![r] = NoLocals]
    /\ hist' = [hist EXCEPT ![r] = NoHistory]
    /\ proxies' = Released(proxies, HeldByOthers(r))
    /\ UNCHANGED recordingDDL

\* Calls are issued one at a time.
Next ==
    \E r \in Recordings :
        \/ CallAlone(r)
        \/ CallAgain(r)
        \/ FindCachedCopy(r)
        \/ CopyOnGpuSucceeds(r)
        \/ CopyOnGpuFails(r)
        \/ RemoveKey(r)
        \/ AssignKey(r)
        \/ CallCreateFragmentProcessor(r)
        \/ CreateFragmentProcessorReturns(r)
        \/ Finish(r)

Spec == Init /\ [][Next]_vars

\* Recordings issue their calls concurrently.
NextConcurrent ==
    \E r \in Recordings :
        \/ CallConcurrently(r)
        \/ FindCachedCopy(r)
        \/ CopyOnGpuSucceeds(r)
        \/ CopyOnGpuFails(r)
        \/ RemoveKey(r)
        \/ AssignKey(r)
        \/ Finish(r)

SpecConcurrent == Init /\ [][NextConcurrent]_vars

\* ------------------------------------------------------------ properties
\* The cache mapping: which proxy answers which key.
CacheMapping(ps) == {<<ps[p].uniqueKey, p>> : p \in {q \in ProxyIds : ps[q].live /\ ps[q].uniqueKey.valid}}

\* Recording r has finished a call that went through refTextureProxyCopy.
DoneCopyCall(r) == pc[r] = "done" /\ hist[r].entered

\* The proxies that answered the key of r's call when the call began.
CachedBefore(r) == ProxiesWithKey(hist[r].pre, loc[r].key)

\* The case of C1: the key of the call was valid and mapped to a copy without
\* mips, mips were asked for, and the copy succeeded.
MipUpgradeDone(r) ==
    /\ DoneCopyCall(r)
    /\ loc[r].key.valid
    /\ loc[r].willBeMipped
    /\ CachedBefore(r) # {}
    /\ \A old \in CachedBefore(r) : ~hist[r].pre[old].mipMapped
    /\ loc[r].result # Null

\* C1: a call that asks for mips, finds a copy without mips under its valid
\* key K and whose copy succeeds has invoked CopyOnGpu exactly once; afterwards
\* K is answered by the new copy only, the new copy has mips, and the old copy
\* is still alive but no longer carries K.
C1_MipUpgrade ==
    \A r \in Recordings :
        MipUpgradeDone(r) =>
            /\ hist[r].copies = 1
            /\ loc[r].result = loc[r].copy
            /\ loc[r].result \notin CachedBefore(r)
            /\ ProxiesWithKey(proxies, loc[r].key) = {loc[r].result}
            /\ proxies[loc[r].result].mipMapped
            /\ \A old \in CachedBefore(r) :
                  /\ proxies[old].live
                  /\ proxies[old] = [hist[r].pre[old] EXCEPT !.uniqueKey = InvalidKey]

C1_Witness == \E r \in Recordings : MipUpgradeDone(r)

\* Recording r has finished the second of two consecutive calls with the same
\* adjuster and arguments, both of which went through refTextureProxyCopy.
SecondCallDone(r) ==
    DoneCopyCall(r) /\ hist[r].first.valid /\ hist[r].first.entered

\* C2 as stated: two consecutive calls with the same arguments invoke
\* CopyOnGpu at most once in total, and the second invokes it not at all.
C2_AtMostOneCopy ==
    \A r \in Recordings :
        SecondCallDone(r) =>
            /\ hist[r].first.copies + hist[r].copies <= 1
            /\ hist[r].copies = 0

\* C2 amended: when the key is valid and the first call returned a proxy (a
\* hit, or a copy that succeeded), the second call is a cache hit: it looks
\* the key up once, invokes CopyOnGpu not at all, changes nothing in the cache
\* and returns the proxy the first call returned; the two calls together
\* invoke CopyOnGpu at most once.
C2_SecondCallHits ==
    \A r \in Recordings :
        (SecondCallDone(r) /\ loc[r].key.valid /\ hist[r].first.result # Null) =>
            /\ hist[r].copies = 0
            /\ hist[r].first.copies + hist[r].copies <= 1
            /\ hist[r].lookups = 1
            /\ loc[r].result = hist[r].first.result
            /\ loc[r].result = loc[r].cachedCopy
            /\ proxies = hist[r].pre

C2_Witness ==
    \E r \in Recordings :
        /\ SecondCallDone(r) /\ loc[r].key.valid /\ hist[r].first.result # Null
        /\ hist[r].first.copies = 1

\* C3: with calls issued one at a time, no key is carried by two proxies in
\* any state, and between the removal of the key from the old copy and its
\* assignment to the new one no proxy carries the key.
C3_OneProxyPerKey ==
    /\ \A p, q \in ProxyIds :
          (/\ proxies[p].live /\ proxies[q].live
           /\ proxies[p].uniqueKey.valid
           /\ proxies[p].uniqueKey = proxies[q].uniqueKey) => p = q
    /\ \A r \in Recordings :
          (pc[r] = "assign" /\ loc[r].cachedCopy # Null) =>
              ProxiesWithKey(proxies, loc[r].key) = {}

C3_Witness ==
    \E r \in Recordings :
        /\ pc[r] = "assign" /\ loc[r].cachedCopy # Null
        /\ hist[r].removes = 1
        /\ proxies[loc[r].cachedCopy].live
        /\ hist[r].pre[loc[r].cachedCopy].uniqueKey = loc[r].key

\* C4: with recordings that call concurrently for the same key, every cache
\* operation being atomic, no state has two proxies that answer one key.
C4_NoKeyAnsweredTwice ==
    \A m \in CacheMapping(proxies) :
        Cardinality(ProxiesWithKey(proxies, m[1])) <= 1

\* C5: a call on an adjuster whose context is null returns null and has done
\* no lookup, no copy, no key removal or assignment and no notification; the
\* proxies are what they were.
C5_AbandonedReturnsNull ==
    \A r \in Recordings :
        (pc[r] = "done" /\ ~adj[r].fContext) =>
            /\ loc[r].ret = Null
            /\ ~hist[r].entered
            /\ hist[r].lookups = 0 /\ hist[r].copies = 0
            /\ hist[r].removes = 0 /\ hist[r].assigns = 0 /\ hist[r].notifies = 0
            /\ proxies = hist[r].pre

C5_Witness ==
    \E r \in Recordings :
        /\ pc[r] = "done" /\ ~adj[r].fContext
        /\ loc[r].params.isRepeated /\ adj[r].fOriginal = 1 /\ adj[r].fUniqueID = 1
        /\ CacheMapping(proxies) # {}

\* The repeat-wrap check of r's call demands a copy.
RepeatDemandsCopy(r) ==
    loc[r].params.isRepeated /\ RepeatCopyNeeded(hist[r].pre[adj[r].fOriginal])

\* The mip check of r's call demands a copy.
MipsDemandCopy(r) ==
    MipCopyNeeded(hist[r].pre[adj[r].fOriginal], loc[r].params.filter)

\* C6: when only the mip check demanded the copy and refTextureProxyCopy
\* returned null, the call returns the adjuster's original proxy.
C6_MipsOnlyFallsBack ==
    \A r \in Recordings :
        (/\ pc[r] = "done" /\ adj[r].fContext
         /\ ~RepeatDemandsCopy(r) /\ MipsDemandCopy(r)
         /\ loc[r].result = Null) =>
            /\ hist[r].entered
            /\ loc[r].ret = adj[r].fOriginal

C6_Witness ==
    \E r \in Recordings :
        /\ pc[r] = "done" /\ adj[r].fContext
        /\ ~RepeatDemandsCopy(r) /\ MipsDemandCopy(r)
        /\ loc[r].result = Null /\ hist[r].copies = 1

\* C7: when the repeat-wrap check demanded the copy and refTextureProxyCopy
\* returned null, the call returns null, whether or not mips were asked for.
C7_RepeatPropagatesNull ==
    \A r \in Recordings :
        (/\ pc[r] = "done" /\ adj[r].fContext
         /\ RepeatDemandsCopy(r)
         /\ loc[r].result = Null) =>
            /\ hist[r].entered
            /\ loc[r].ret = Null

C7_Witness ==
    \E r \in Recordings :
        /\ pc[r] = "done" /\ adj[r].fContext
        /\ RepeatDemandsCopy(r) /\ MipsDemandCopy(r) /\ loc[r].willBeMipped
        /\ loc[r].result = Null /\ hist[r].copies = 1

\* C8: a call on a live context in which neither check demands a copy returns
\* the adjuster's original proxy and has done no lookup, no copy and no change
\* to the cache.
C8_NoCopyReturnsOriginal ==
    \A r \in Recordings :
        (/\ pc[r] = "done" /\ adj[r].fContext
         /\ ~RepeatDemandsCopy(r) /\ ~MipsDemandCopy(r)) =>
            /\ loc[r].ret = adj[r].fOriginal
            /\ ~hist[r].entered
            /\ hist[r].lookups = 0 /\ hist[r].copies = 0
            /\ hist[r].removes = 0 /\ hist[r].assigns = 0 /\ hist[r].notifies = 0
            /\ proxies = hist[r].pre

C8_Witness ==
    \E r \in Recordings :
        /\ pc[r] = "done" /\ adj[r].fContext
        /\ ~RepeatDemandsCopy(r) /\ ~MipsDemandCopy(r)
        /\ loc[r].params.isRepeated /\ loc[r].params.filter = "kMipMap"
        /\ loc[r].willBeMipped

\* C9: a call whose key is invalid (unique id 0) does no lookup, removes and
\* assigns no key, notifies nobody, invokes CopyOnGpu once and returns what it
\* gave (the copy or null); the cache mapping is what it was, and so the same
\* call made again does the same and never hits.
C9_InvalidKeyNeverCached ==
    \A r \in Recordings :
        (DoneCopyCall(r) /\ adj[r].fUniqueID = 0) =>
            /\ ~loc[r].key.valid
            /\ hist[r].lookups = 0 /\ loc[r].cachedCopy = Null
            /\ hist[r].removes = 0 /\ hist[r].assigns = 0 /\ hist[r].notifies = 0
            /\ hist[r].copies = 1
            /\ loc[r].result = loc[r].copy
            /\ loc[r].result # Null => ~proxies[loc[r].result].uniqueKey.valid
            /\ CacheMapping(proxies) = CacheMapping(hist[r].pre)
            /\ hist[r].first.valid => hist[r].first.copies = 1

C9_Witness ==
    \E r \in Recordings :
        /\ DoneCopyCall(r) /\ adj[r].fUniqueID = 0
        /\ hist[r].first.valid /\ hist[r].first.result # Null
        /\ loc[r].result # Null

\* C10: after a copy that succeeded under a valid key, the key is on the new
\* copy and on no other proxy, whether or not a DDL is recorded; didCacheCopy
\* was called once if no DDL is recorded and not at all otherwise; the cache
\* mapping is the one before the call with the key moved to the copy.
C10_RegisteredNotifiedUnlessDDL ==
    \A r \in Recordings :
        (DoneCopyCall(r) /\ loc[r].key.valid /\ loc[r].copy # Null) =>
            /\ hist[r].assigns = 1
            /\ proxies[loc[r].copy].uniqueKey = loc[r].key
            /\ hist[r].notifies = (IF recordingDDL THEN 0 ELSE 1)
            /\ CacheMapping(proxies) =
                  (CacheMapping(hist[r].pre) \ {<<loc[r].key, p>> : p \in ProxyIds})
                      \cup {<<loc[r].key, loc[r].copy>>}

C10_Witness ==
    \E r \in Recordings :
        /\ DoneCopyCall(r) /\ loc[r].key.valid /\ loc[r].copy # Null
        /\ recordingDDL /\ hist[r].notifies = 0

\* C11: a proxy found under the key is returned at once, with no copy, no
\* key removal or assignment and no notification, exactly when no mips are
\* wanted or the proxy has mips; a proxy without mips found while mips are
\* wanted is not the result.
C11_HitReturnedIffSatisfies ==
    \A r \in Recordings :
        (DoneCopyCall(r) /\ loc[r].key.valid /\ loc[r].cachedCopy # Null) =>
            /\ (~loc[r].willBeMipped \/ hist[r].pre[loc[r].cachedCopy].mipMapped)
                  <=> loc[r].result = loc[r].cachedCopy
            /\ loc[r].result = loc[r].cachedCopy =>
                  /\ hist[r].copies = 0 /\ hist[r].removes = 0
                  /\ hist[r].assigns = 0 /\ hist[r].notifies = 0
                  /\ proxies = hist[r].pre
            /\ loc[r].result # loc[r].cachedCopy => hist[r].copies = 1

C11_Witness ==
    \E r \in Recordings :
        /\ DoneCopyCall(r) /\ loc[r].key.valid /\ loc[r].cachedCopy # Null
        /\ loc[r].willBeMipped /\ proxies[loc[r].cachedCopy].mipMapped
        /\ loc[r].result = loc[r].cachedCopy

\* The key that the unique id, the dimensions and the copy parameters of r's
\* call determine.
ContentKey(r) ==
    [valid |-> TRUE, imageID |-> adj[r].fUniqueID,
     width |-> hist[r].pre[adj[r].fOriginal].width,
     height |-> hist[r].pre[adj[r].fOriginal].height,
     copyParams |-> loc[r].copyParams]

\* C15: the key of a call is made of the unique id, the width and height and
\* the copy parameters and of nothing else, so a copy that an earlier call,
\* through another adjuster with that id and those dimensions, cached with
\* these copy parameters is found and, if it satisfies the call, returned.
C15_KeyFromContentOnly ==
    \A r \in Recordings :
        (hist[r].entered /\ adj[r].fUniqueID # 0) =>
            /\ loc[r].key = ContentKey(r)
            /\ \A p \in ProxiesWithKey(hist[r].pre, ContentKey(r)) :
                  /\ loc[r].cachedCopy = p
                  /\ (pc[r] = "done" /\ (~loc[r].willBeMipped \/ hist[r].pre[p].mipMapped))
                        => (loc[r].result = p /\ hist[r].copies = 0)

C15_Witness ==
    \E r \in Recordings :
        /\ DoneCopyCall(r) /\ adj[r].fUniqueID # 0
        /\ ~hist[r].first.valid
        /\ ProxiesWithKey(hist[r].pre, ContentKey(r)) # {}
        /\ loc[r].result = loc[r].cachedCopy /\ loc[r].result # Null

\* Recording r has finished a call whose CopyOnGpu returned null.
CopyFailedDone(r) == DoneCopyCall(r) /\ hist[r].copies > 0 /\ loc[r].copy = Null

\* C17: when CopyOnGpu fails, refTextureProxyCopy returns null after that one
\* attempt and the proxies and their keys are what they were before the call:
\* no key removed or assigned, no notification, and a copy without mips found
\* under the key still carries it.
C17_FailedCopyChangesNothing ==
    \A r \in Recordings :
        CopyFailedDone(r) =>
            /\ loc[r].result = Null
            /\ hist[r].copies = 1
            /\ hist[r].removes = 0 /\ hist[r].assigns = 0 /\ hist[r].notifies = 0
            /\ proxies = hist[r].pre
            /\ loc[r].cachedCopy # Null =>
                  loc[r].cachedCopy \in ProxiesWithKey(proxies, loc[r].key)

C17_Witness ==
    \E r \in Recordings :
        /\ CopyFailedDone(r) /\ loc[r].key.valid
        /\ loc[r].cachedCopy # Null /\ ~proxies[loc[r].cachedCopy].mipMapped

\* C18: whenever a call is about to take the key off a cached copy, mips are
\* wanted, the cached copy has none and is the proxy that carries the key, and
\* the new copy has mips, whatever the interleaving of the recordings.
C18_SupersessionAssertion ==
    \A r \in Recordings :
        pc[r] = "remove" =>
            /\ loc[r].willBeMipped
            /\ ~proxies[loc[r].cachedCopy].mipMapped
            /\ ProxiesWithKey(proxies, loc[r].key) = {loc[r].cachedCopy}
            /\ proxies[loc[r].copy].mipMapped

\* C19: with calls issued one at a time, no step changes a proxy that has
\* mips and carries a valid key (it keeps the key and no other proxy gets it),
\* and no call whose key is carried by a proxy with mips gets as far as
\* CopyOnGpu, whether it wants mips or not.
C19_MippedEntryStays ==
    /\ [][\A p \in ProxyIds :
            (proxies[p].live /\ proxies[p].uniqueKey.valid /\ proxies[p].mipMapped) =>
                /\ proxies'[p] = proxies[p]
                /\ ProxiesWithKey(proxies', proxies[p].uniqueKey) = {p}]_vars
    /\ [](\A r \in Recordings :
            (hist[r].entered /\ loc[r].key.valid /\
             \E p \in ProxiesWithKey(hist[r].pre, loc[r].key) : hist[r].pre[p].mipMapped) =>
                hist[r].copies = 0)

C19_Witness ==
    \E r \in Recordings :
        /\ DoneCopyCall(r) /\ loc[r].key.valid /\ ~loc[r].willBeMipped
        /\ loc[r].cachedCopy # Null /\ proxies[loc[r].cachedCopy].mipMapped
        /\ loc[r].result = loc[r].cachedCopy

\* createFragmentProcessor of recording r has returned a fragment processor.
ReturnedProcessor(r) == pc[r] = "returned" /\ ~fp[r].out.null

\* C12: whenever the first DetermineDomainMode of createFragmentProcessor
\* answers kTightCopy, it is asked once more, with kBilerp, and answers
\* kDomain or kNoDomain, so the assertion after the retry holds; without a
\* kTightCopy there is no retry.
C12_RetryResolves ==
    \A r \in Recordings :
        ReturnedProcessor(r) =>
            IF fp[r].firstMode = "kTightCopy"
            THEN /\ fp[r].retryFilter = "kBilerp"
                 /\ fp[r].retryMode \in {"kDomain", "kNoDomain"}
                 /\ fp[r].out.domainMode = fp[r].retryMode
                 /\ "kTightCopy_DomainMode != domainMode" \notin fp[r].asserts
            ELSE /\ fp[r].retryFilter = "none" /\ fp[r].retryMode = "none"
                 /\ fp[r].out.domainMode = fp[r].firstMode

C12_Witness ==
    \E r \in Recordings :
        /\ ReturnedProcessor(r) /\ fp[r].firstMode = "kTightCopy"
        /\ fp[r].retryFilter = "kBilerp" /\ fp[r].out.domainMode = "kDomain"

\* C13: the mode and the domain handed to
\* CreateFragmentProcessorForDomainAndFilter are kNoDomain, or a domain with
\* left <= right and top <= bottom, after a first answer and after a retry.
C13_DomainInvariant ==
    \A r \in Recordings :
        ReturnedProcessor(r) =>
            \/ fp[r].out.domainMode = "kNoDomain"
            \/ /\ fp[r].out.domain.fLeft <= fp[r].out.domain.fRight
               /\ fp[r].out.domain.fTop <= fp[r].out.domain.fBottom

C13_Witness ==
    \E r \in Recordings :
        /\ ReturnedProcessor(r) /\ fp[r].firstMode = "kTightCopy"
        /\ fp[r].out.domainMode = "kDomain"
        /\ fp[r].constraintRect.fRight - fp[r].constraintRect.fLeft < TexelUnits
        /\ fp[r].out.domain.fLeft = fp[r].out.domain.fRight

\* The constraint rectangle of r's call leaves part of the texture out.
ConstraintIsPartial(r) ==
    ~Contains(fp[r].constraintRect,
              MakeWH(proxies[fp[r].out.proxy].width, proxies[fp[r].out.proxy].height))

C16_ScaledIffNotOriginal ==
    \A r \in Recordings :
        ReturnedProcessor(r) =>
            /\ fp[r].out.proxy = loc[r].ret
            /\ fp[r].out.textureMatrix # << >> <=> loc[r].ret # adj[r].fOriginal
            /\ fp[r].out.textureMatrix \in {<< >>, << <<1, 1>> >>}
            /\ (hist[r].entered /\ loc[r].result = Null) => fp[r].out.textureMatrix = << >>
            /\ ~hist[r].entered => fp[r].out.textureMatrix = << >>

C16_Witness ==
    \E r \in Recordings :
        /\ ReturnedProcessor(r)
        /\ hist[r].entered /\ hist[r].copies = 1 /\ loc[r].result = Null
        /\ loc[r].ret = adj[r].fOriginal
        /\ fp[r].out.textureMatrix = << >>

\* C20: after a kTightCopy and the retry with kBilerp, the mode and the
\* domain handed on are the retry's, the filter handed on is the caller's
\* filterOrNullForBicubic and not kBilerp, and the proxy and the matrix are
\* what they were before the retry.
C20_RetryKeepsFilter ==
    \A r \in Recordings :
        (ReturnedProcessor(r) /\ fp[r].firstMode = "kTightCopy") =>
            /\ fp[r].out.filter = fp[r].filterOrNullForBicubic
            /\ fp[r].out.filter # "kBilerp"
            /\ fp[r].out.domainMode = fp[r].retryMode
            /\ fp[r].retryMode = "kDomain" => fp[r].out.domain = fp[r].retryDomain
            /\ fp[r].out.proxy = loc[r].ret
            /\ fp[r].out.textureMatrix =
                  IF loc[r].ret # adj[r].fOriginal THEN << <<1, 1>> >> ELSE << >>

C20_Witness ==
    \E r \in Recordings :
        /\ ReturnedProcessor(r) /\ fp[r].firstMode = "kTightCopy"
        /\ fp[r].retryFilter = "kBilerp"
        /\ fp[r].out.filter = "kMipMap"
        /\ fp[r].out.proxy # adj[r].fOriginal

====
